---- MODULE Spec2Model ----
(***************************************************************************)
(* Model of the Telegram -> Obsidian bridge.                               *)
(*   full variant   : src/Dockerfile (the script that follows the Docker   *)
(*                    instructions, lines 20-328)                          *)
(*   simple variant : src/telegram-to-obsidian.js                          *)
(* Strings are sequences of one-character strings.  One action is one      *)
(* synchronous run of the script between two suspension points (await,     *)
(* callback), which is the granularity the single-threaded event loop      *)
(* gives the program.                                                      *)
(***************************************************************************)
EXTENDS Integers, Sequences, FiniteSets, TLC

VARIABLES
  variant,        \* which script runs: "full" or "simple"
  env,            \* process.env, as read by the script
  boot,           \* position of the top-level script
  exitCode,       \* process exit code, -1 while the process has not exited
  BOT_TOKEN,      \* the constant of the same name
  dirs,           \* directories that exist under the vault
  allowedChatIds, \* the constant of the same name (a sequence of numbers)
  bot,            \* TRUE once new Telegraf(...) has run
  launched,       \* TRUE once bot.launch() has been called
  drive,          \* the shared Drive client: TRUE when non-null
  auth,           \* jwtClient.authorize: "none", "pending", "ok", "failed"
  clock,          \* wall clock, in seconds
  h,              \* per message: the state of its handler invocation
  mir,            \* per message: the state of its detached mirror upload
  notes,          \* files of NOTES_FOLDER: records [path, content]
  assetFiles,     \* files of ASSETS_FOLDER: records [path, owner]
  rfolders,       \* folders under GD_FOLDER_ID on the remote: records [id, name]
  overlapped,     \* history: TRUE once a handler started while another was running
  input,          \* the argument a function is applied to on its own
  output          \* what that application returned

vars == <<variant, env, boot, exitCode, BOT_TOKEN, dirs, allowedChatIds, bot,
          launched, drive, auth, clock, h, mir, notes, assetFiles, rfolders,
          overlapped, input, output>>

----------------------------------------------------------------------------
(* Bounds of the model *)

MaxMsgs == 2        \* messages delivered in one run
MaxPhotos == 2      \* photo descriptors of one message
MaxAttach == 2      \* attachments of all the messages of one run together
MaxActive == 1      \* handler invocations in flight together
MaxClock == 1       \* the clock runs over 0..MaxClock seconds
SecsPerDay == 1     \* seconds of one (scaled) UTC day

Msgs == 1..MaxMsgs
ChatIds == {111, 222}
BaseNames == {"f1", "f2"}       \* base names the file server answers with
Texts == { <<>>, <<"H", "i", "!">> }

----------------------------------------------------------------------------
(* String helpers: what the JavaScript built-ins used by the scripts do *)

IsSpace(c) == c \in {" ", "\n", "\t"}

RECURSIVE TrimLeft(_)
TrimLeft(s) == IF s # <<>> /\ IsSpace(Head(s)) THEN TrimLeft(Tail(s)) ELSE s

RECURSIVE TrimRight(_)
TrimRight(s) ==
  IF s # <<>> /\ IsSpace(s[Len(s)]) THEN TrimRight(SubSeq(s, 1, Len(s) - 1)) ELSE s

\* String.prototype.trim
Trim(s) == TrimRight(TrimLeft(s))

SliceAll(s, n) == s

\* String.prototype.slice(0, n)
Slice(s, n) == SubSeq(s, 1, IF Len(s) < n THEN Len(s) ELSE n)

Max(S) == CHOOSE x \in S : \A y \in S : y <= x
Min(S) == CHOOSE x \in S : \A y \in S : x <= y

\* the k-th smallest element of a set of numbers
Nth(S, k) == CHOOSE x \in S : Cardinality({y \in S : y < x}) = k - 1

\* String.prototype.split(sep) for a one-character separator: the pieces
\* between the separators, one more than there are separators
Split(s, sep) ==
  LET seps == {i \in 1..Len(s) : s[i] = sep}
      n == Cardinality(seps)
  IN [k \in 1..(n + 1) |->
        SubSeq(s, IF k = 1 THEN 1 ELSE Nth(seps, k - 1) + 1,
                  IF k = n + 1 THEN Len(s) ELSE Nth(seps, k) - 1)]

\* Array.prototype.filter(Boolean) on an array of strings: drops the empty ones
RECURSIVE FilterNonEmpty(_)
FilterNonEmpty(a) ==
  IF a = <<>> THEN <<>>
  ELSE IF Head(a) = <<>> THEN FilterNonEmpty(Tail(a))
  ELSE <<Head(a)>> \o FilterNonEmpty(Tail(a))

\* Array.prototype.map(l => l.trim())
TrimAll(a) == [i \in 1..Len(a) |-> Trim(a[i])]

RECURSIVE Sum(_, _)
Sum(f, S) == IF S = {} THEN 0 ELSE LET x == CHOOSE y \in S : TRUE
                                   IN f[x] + Sum(f, S \ {x})

\* Array.prototype.join(sep): the elements with sep between neighbours
RECURSIVE Join(_, _)
Join(a, sep) ==
  IF a = <<>> THEN <<>>
  ELSE IF Len(a) = 1 THEN <<a[1]>>
  ELSE <<a[1], sep>> \o Join(Tail(a), sep)

UpperToLower == [c \in {"H", "T"} |-> IF c = "H" THEN "h" ELSE "t"]
ToLower(c) == IF c \in DOMAIN UpperToLower THEN UpperToLower[c] ELSE c
LowerLetters == {"a", "e", "g", "h", "i", "l", "m", "o", "p", "r", "s", "t"}
IsAlnum(c) == c \in LowerLetters \/ c \in DOMAIN UpperToLower

RECURSIVE KeepAlnumSpace(_)
KeepAlnumSpace(s) ==
  IF s = <<>> THEN <<>>
  ELSE IF IsAlnum(Head(s)) \/ IsSpace(Head(s))
       THEN <<Head(s)>> \o KeepAlnumSpace(Tail(s))
       ELSE KeepAlnumSpace(Tail(s))

RECURSIVE SpacesToDash(_)
SpacesToDash(s) ==
  IF s = <<>> THEN <<>>
  ELSE IF IsSpace(Head(s))
       THEN <<"-">> \o SpacesToDash(TrimLeft(s))
       ELSE <<Head(s)>> \o SpacesToDash(Tail(s))

\* slugify(s, {lower: true, strict: true}): strip what is neither alphanumeric
\* nor white space, trim, turn each white-space run into '-', lower-case
slugify(s) ==
  LET t == SpacesToDash(Trim(KeepAlnumSpace(s)))
  IN [i \in 1..Len(t) |-> ToLower(t[i])]

----------------------------------------------------------------------------
(* Pure functions of the scripts *)

TitleMax == 120
SlugMax == 80

FallbackTitle == <<"T", "e", "l", "e", "g", "r", "a", "m", " ", "p", "o", "s", "t">>

\* parseTextMeta, the title part: first trimmed non-empty line, cut to 120
titleCandidate(text) ==
  LET lines == FilterNonEmpty(TrimAll(Split(text, "\n")))
  IN IF Len(lines) > 0 THEN Slice(lines[1], TitleMax) ELSE FallbackTitle

\* Number(s) for the chat-id fields the model uses; anything else is NaN
Number(s) ==
  IF s = <<"1", "1", "1">> THEN 111
  ELSE IF s = <<"2", "2", "2">> THEN 222
  ELSE "NaN"

\* const allowedChatIds = (env || '').split(',').map(trim).filter(Boolean).map(Number)
parseAllowedChatIds(s) ==
  LET fields == FilterNonEmpty(TrimAll(Split(s, ",")))
  IN [i \in 1..Len(fields) |-> Number(fields[i])]

\* Array.prototype.includes
Includes(a, x) == \E i \in 1..Len(a) : a[i] = x

\* fileTimestamp(): the local time to the second
fileTimestamp == clock

\* new Date().toISOString().slice(0,10): the UTC date
utcDate == clock \div SecsPerDay

\* the attachments the handler fetches, in the order it fetches them
Descriptors(v, msg) ==
  IF v = "full"
  THEN [i \in 1..msg.nPhotos |-> [kind |-> "photo", i |-> i]]
       \o (IF msg.doc THEN <<[kind |-> "doc", i |-> 1]>> ELSE <<>>)
  ELSE IF msg.nPhotos > 0
       THEN <<[kind |-> "photo", i |-> msg.nPhotos]>>
       ELSE <<>>

\* path.join(dir, name) and path.basename(p)
pathJoin(dir, name) == [dir |-> dir, name |-> name]
basename(p) == p.name

assetNameNoBase(ts, msg, filePath) == <<ts, msg.chat, "">>

\* `${fileTimestamp()}-${slugify(channel)}-${path.basename(file_path)}`
\* (the chats of the model have no title and no username: channel is the id,
\* a digit string, which slugify leaves as it is)
assetName(ts, msg, filePath) == <<ts, msg.chat, basename(filePath)>>

\* `assets/${path.basename(p)}`
relAsset(p) == pathJoin("assets", basename(p))

\* `${fileTimestamp()}-${slugify(title).slice(0,80)}.md`
noteFilename(ts, title) == <<ts, Slice(slugify(title), SlugMax)>>

\* buildMarkdown: the fields of the note the properties are about
buildMarkdown(v, m, title, saved) ==
  [ owner |-> m,
    title |-> title,
    mediaImage |-> IF v = "full"
                   THEN Join([i \in 1..Len(saved) |-> relAsset(saved[i])], ",")
                   ELSE IF Len(saved) > 0
                        THEN <<pathJoin("telegram-posts/assets", basename(saved[1]))>>
                        ELSE <<>> ]

----------------------------------------------------------------------------
(* Initial state: the environment is chosen, nothing has run *)

Placeholder == "<placeholder>"

NoPath == [dir |-> "", name |-> <<>>]

NoMsg == [chat |-> 0, text |-> <<>>, nPhotos |-> 0, doc |-> FALSE]

NoMarkdown == [owner |-> 0, title |-> <<>>, mediaImage |-> <<>>]

\* no function is applied on its own while the program runs
NoInput == [fn |-> "none"]

NoOutput == [fn |-> "none"]

\* the locals of one handler invocation (msg .. markdown), which its return
\* discards, and what is recorded of it for the properties (chat .. replies):
\* the chat id, the title, the filename, whether and as which write of the run the note
\* was written, whether the write threw and whether the disk reported an error,
\* the attachment whose fetch failed, the attachments, the getFile calls, and
\* the replies
HandlerInit ==
  [ pc |-> "idle",
    msg |-> NoMsg, idx |-> 0, dest |-> NoPath, savedAssets |-> <<>>,
    fetches |-> <<>>, markdown |-> NoMarkdown,
    chat |-> 0, title |-> <<>>, filename |-> <<>>, written |-> FALSE, wseq |-> 0,
    writeError |-> FALSE, ioError |-> FALSE,
    fetchErrorAt |-> 0, nAttach |-> 0, nGetFile |-> 0, replies |-> <<>> ]

\* one call of uploadNoteAndAssetsToDrive: position, dateFolderName,
\* dateFolderId, number of asset paths, index of the upload in flight, what the
\* last uploadFileToDrive returned, and the remote calls issued so far
MirrorInit ==
  [ pc |-> "none", name |-> -1, folder |-> 0, nAssets |-> 0, idx |-> 0,
    last |-> "none", log |-> <<>> ]

Environment(tok, fid, key, allow) ==
  [ BOT_TOKEN |-> tok, GD_DRIVE_FOLDER_ID |-> fid,
    GOOGLE_SERVICE_ACCOUNT_KEY_BASE64 |-> key, ALLOWED_CHAT_IDS |-> allow ]

\* the environments the full script is started in: the mirror configured
\* (with an allow-list), each way of leaving it unconfigured (without one), an
\* unparsable key, and no token
EnvFull ==
  { Environment("tok", "fid", "good", <<" ", "1", "1", "1", ",">>),
    Environment("tok", "", "good", <<>>),
    Environment("tok", "fid", "", <<>>),
    Environment("tok", "", "", <<>>),
    Environment("tok", "fid", "bad", <<>>),
    Environment("", "fid", "good", <<>>) }

\* the simple script reads BOT_TOKEN only
EnvSimple ==
  { Environment("tok", "", "", <<>>), Environment("", "", "", <<>>) }

Init ==
  /\ variant \in {"full", "simple"}
  /\ env \in (IF variant = "full" THEN EnvFull ELSE EnvSimple)
  /\ boot = "start"
  /\ exitCode = -1
  /\ BOT_TOKEN = ""
  /\ dirs = {}
  /\ allowedChatIds = <<>>
  /\ bot = FALSE
  /\ launched = FALSE
  /\ drive = FALSE
  /\ auth = "none"
  /\ clock = 0
  /\ h = [m \in Msgs |-> HandlerInit]
  /\ mir = [m \in Msgs |-> MirrorInit]
  /\ notes = {}
  /\ assetFiles = {}
  /\ rfolders = {}
  /\ overlapped = FALSE
  /\ input = NoInput
  /\ output = NoOutput

----------------------------------------------------------------------------
(* The top-level script *)

\* const BOT_TOKEN = process.env.BOT_TOKEN [|| placeholder]
loadToken(v, e) ==
  IF v = "full" THEN e.BOT_TOKEN
  ELSE IF e.BOT_TOKEN # "" THEN e.BOT_TOKEN ELSE Placeholder

\* if (!BOT_TOKEN) { console.error(...); process.exit(1); }
CheckToken ==
  /\ boot = "start"
  /\ BOT_TOKEN' = loadToken(variant, env)
  /\ IF BOT_TOKEN' = ""
     THEN boot' = "exited" /\ exitCode' = 1
     ELSE boot' = "token" /\ exitCode' = exitCode
  /\ UNCHANGED <<variant, env, dirs, allowedChatIds, bot, launched, drive, auth,
                 clock, h, mir, notes, assetFiles, rfolders, overlapped,
                 input, output>>

\* if (!fs.existsSync(X)) fs.mkdirSync(X, { recursive: true }), for both folders
MakeDirs ==
  /\ boot = "token"
  /\ dirs' = dirs \cup {"notes", "assets"}
  /\ boot' = IF variant = "full" THEN "dirs" ELSE "drive"
  /\ UNCHANGED <<variant, env, exitCode, BOT_TOKEN, allowedChatIds, bot, launched,
                 drive, auth, clock, h, mir, notes, assetFiles, rfolders, overlapped,
                 input, output>>

GD_FOLDER_ID == env.GD_DRIVE_FOLDER_ID # ""
GOOGLE_SA_KEY_BASE64 == env.GOOGLE_SERVICE_ACCOUNT_KEY_BASE64 # ""

driveSetupKeyOnly(folderSet, keySet, key) ==
  IF keySet /\ key = "good"
  THEN [drive |-> TRUE, auth |-> "pending"]
  ELSE [drive |-> FALSE, auth |-> "none"]

\* let drive = null; if (GD_FOLDER_ID && GOOGLE_SA_KEY_BASE64) { try { parse key,
\* drive = google.drive(...), jwtClient.authorize(cb) } catch { drive = null } }
driveSetup(folderSet, keySet, key) ==
  IF folderSet /\ keySet
  THEN IF key = "good"
       THEN [drive |-> TRUE, auth |-> "pending"]
       ELSE [drive |-> FALSE, auth |-> "none"]
  ELSE [drive |-> FALSE, auth |-> "none"]

DriveSetup ==
  /\ boot = "dirs"
  /\ LET r == driveSetup(GD_FOLDER_ID, GOOGLE_SA_KEY_BASE64,
                         env.GOOGLE_SERVICE_ACCOUNT_KEY_BASE64)
     IN drive' = r.drive /\ auth' = r.auth
  /\ boot' = "drive"
  /\ UNCHANGED <<variant, env, exitCode, BOT_TOKEN, dirs, allowedChatIds, bot,
                 launched, clock, h, mir, notes, assetFiles, rfolders, overlapped,
                 input, output>>

\* const allowedChatIds = ...; const bot = new Telegraf(BOT_TOKEN, ...)
ConstructBot ==
  /\ boot = "drive"
  /\ allowedChatIds' = IF variant = "full"
                       THEN parseAllowedChatIds(env.ALLOWED_CHAT_IDS)
                       ELSE <<>>
  /\ bot' = TRUE
  /\ boot' = "bot"
  /\ UNCHANGED <<variant, env, exitCode, BOT_TOKEN, dirs, launched, drive, auth,
                 clock, h, mir, notes, assetFiles, rfolders, overlapped,
                 input, output>>

\* bot.launch()
Launch ==
  /\ boot = "bot"
  /\ launched' = TRUE
  /\ boot' = "serving"
  /\ UNCHANGED <<variant, env, exitCode, BOT_TOKEN, dirs, allowedChatIds, bot,
                 drive, auth, clock, h, mir, notes, assetFiles, rfolders, overlapped,
                 input, output>>

onAuthorizeKeepsClient(err, d) == d

\* the authorize callback: if (err) { drive = null } else { log }
onAuthorize(err, d) == IF err THEN FALSE ELSE d

\* jwtClient.authorize((err) => { ... }) calls back
AuthorizeDone ==
  /\ auth = "pending"
  /\ \E err \in BOOLEAN :
       /\ auth' = IF err THEN "failed" ELSE "ok"
       /\ drive' = onAuthorize(err, drive)
  /\ UNCHANGED <<variant, env, boot, exitCode, BOT_TOKEN, dirs, allowedChatIds, bot,
                 launched, clock, h, mir, notes, assetFiles, rfolders, overlapped,
                 input, output>>

\* the wall clock advances
Tick ==
  /\ clock < MaxClock
  /\ clock' = clock + 1
  /\ UNCHANGED <<variant, env, boot, exitCode, BOT_TOKEN, dirs, allowedChatIds, bot,
                 launched, drive, auth, h, mir, notes, assetFiles, rfolders,
                 overlapped, input, output>>

----------------------------------------------------------------------------
(* The remote mirror: uploadNoteAndAssetsToDrive and uploadFileToDrive *)

writeFileKeep(files, path, content) ==
  files \cup {[path |-> path, content |-> content]}

\* fs.writeFileSync(path, content) / fs.createWriteStream(path): create or replace
writeFile(files, path, content) ==
  {f \in files : f.path # path} \cup {[path |-> path, content |-> content]}

\* fs.writeFileSync throws on an I/O error only (flag 'w': an existing file is
\* no error)
writeThrows(files, path, ioError) == ioError

\* if (!drive || !GD_FOLDER_ID) return;
mirrorGuard(d, folderSet) == d /\ folderSet

mirrorCatchRethrows == "rejected"

\* a throw inside the try block of uploadNoteAndAssetsToDrive ends in its catch
mirrorCatch == "done"

Call(op, folder, item) == [op |-> op, folder |-> folder, item |-> item]

\* the loop over assetPaths and the note upload, from item i on: uploadFileToDrive
\* returns null without a call while drive is null, else issues files.create
nextUpload(mm, d, i) ==
  IF d /\ i <= mm.nAssets + 1
  THEN [mm EXCEPT !.pc = "upload", !.idx = i,
                  !.log = Append(@, Call("upload", mm.folder, i))]
  ELSE [mm EXCEPT !.pc = "done", !.idx = 0, !.last = "none"]

\* the synchronous head of uploadNoteAndAssetsToDrive: guard, date name, files.list
mirrorStart(mm, d, folderSet, date, assetPaths) ==
  IF ~mirrorGuard(d, folderSet)
  THEN [mm EXCEPT !.pc = "done"]
  ELSE [mm EXCEPT !.pc = "list", !.name = date, !.nAssets = Len(assetPaths),
                  !.log = Append(@, Call("list", 0, date))]

HUnchanged == UNCHANGED <<variant, env, boot, exitCode, BOT_TOKEN, dirs,
                          allowedChatIds, bot, launched, drive, auth, clock,
                          input, output>>

\* files.list answers: reuse files[0].id, or call files.create for the folder
ListDone(m) ==
  /\ mir[m].pc = "list"
  /\ \E ok \in BOOLEAN :
       LET mm == mir[m]
           found == {f \in rfolders : f.name = mm.name}
       IN IF ~ok
          THEN mir' = [mir EXCEPT ![m].pc = mirrorCatch]
          ELSE IF found # {}
          THEN \E f \in found :
                 mir' = [mir EXCEPT ![m] =
                           nextUpload([mm EXCEPT !.folder = f.id], drive, 1)]
          ELSE IF ~drive
          THEN mir' = [mir EXCEPT ![m].pc = mirrorCatch]
          ELSE mir' = [mir EXCEPT ![m].pc = "create",
                                  ![m].log = Append(@, Call("mkdir", 0, mm.name))]
  /\ HUnchanged
  /\ UNCHANGED <<h, notes, assetFiles, rfolders, overlapped>>

createFolderIfAbsent(folders, name) ==
  IF \E f \in folders : f.name = name
  THEN [id |-> (CHOOSE f \in folders : f.name = name).id, folders |-> folders]
  ELSE [id |-> Cardinality(folders) + 1,
        folders |-> folders \cup {[id |-> Cardinality(folders) + 1, name |-> name]}]

\* drive.files.create({ name, mimeType: folder, parents }): the remote makes a new
\* folder with a fresh id, whatever folders of that name exist; the id is
\* folderRes.data.id
createFolder(folders, name) ==
  [id |-> Cardinality(folders) + 1,
   folders |-> folders \cup {[id |-> Cardinality(folders) + 1, name |-> name]}]

\* files.create of the date folder answers
CreateDone(m) ==
  /\ mir[m].pc = "create"
  /\ \E ok \in BOOLEAN :
       LET mm == mir[m]
           made == createFolder(rfolders, mm.name)
           id == made.id
       IN IF ok
          THEN /\ rfolders' = made.folders
               /\ mir' = [mir EXCEPT ![m] =
                            nextUpload([mm EXCEPT !.folder = id], drive, 1)]
          ELSE /\ rfolders' = rfolders
               /\ mir' = [mir EXCEPT ![m].pc = mirrorCatch]
  /\ HUnchanged
  /\ UNCHANGED <<h, notes, assetFiles, overlapped>>

\* uploadFileToDrive: try { ...; return res.data } catch { log; return null }
uploadFileResult(ok) == IF ok THEN "data" ELSE "null"

\* files.create of one upload answers
UploadDone(m) ==
  /\ mir[m].pc = "upload"
  /\ \E ok \in BOOLEAN :
       LET mm == [mir[m] EXCEPT !.last = uploadFileResult(ok)]
       IN IF uploadFileResult(ok) = "throw"
          THEN mir' = [mir EXCEPT ![m] = [mm EXCEPT !.pc = mirrorCatch]]
          ELSE mir' = [mir EXCEPT ![m] = nextUpload(mm, drive, mm.idx + 1)]
  /\ HUnchanged
  /\ UNCHANGED <<h, notes, assetFiles, rfolders, overlapped>>

----------------------------------------------------------------------------
(* The message handler: bot.on('message', async (ctx) => { ... }) *)

Active == {"getFile", "download", "ackWait", "failWait"}

\* an invocation that has not returned: waiting for an answer, or suspended for
\* good at a download that never settles
Suspended == Active \cup {"stalled"}

Reply(kind, arg) == [kind |-> kind, arg |-> arg, status |-> "pending"]

filterDropsNoLength(v, allowed, chatId) ==
  v = "full" /\ ~Includes(allowed, chatId)

\* if (allowedChatIds.length && !allowedChatIds.includes(chatId)) return;
filterDrops(v, allowed, chatId) ==
  v = "full" /\ Len(allowed) > 0 /\ ~Includes(allowed, chatId)

\* if (drive && GD_FOLDER_ID) uploadNoteAndAssetsToDrive(...).then(...).catch(...)
handlerLaunches(v, d, folderSet) == v = "full" /\ d /\ folderSet

\* catch (err) { console.error(...); await ctx.reply('...' + err.message) }
Catch(hm) ==
  [hm EXCEPT !.pc = "failWait", !.replies = Append(@, Reply("fail", <<>>))]

\* ctx.telegram.getFile(fileId) is called for descriptor i
issueGetFile(hm, i) ==
  [hm EXCEPT !.pc = "getFile", !.idx = i, !.nGetFile = @ + 1,
             !.fetches = Append(@, <<"getFile", i>>)]

\* the handler returns (or its promise rejects): its locals are gone
Return(hm, pc) ==
  [hm EXCEPT !.pc = pc, !.msg = NoMsg, !.idx = 0, !.dest = NoPath,
             !.savedAssets = <<>>, !.fetches = <<>>, !.markdown = NoMarkdown]

afterWriteLaunchFirst(threw) ==
  [launch |-> TRUE, reply |-> IF threw THEN "fail" ELSE "ok"]

\* what follows fs.writeFileSync in the try block: when it returned, the mirror
\* launch (full variant) and the success reply; when it threw, the catch
afterWrite(threw) ==
  IF threw THEN [launch |-> FALSE, reply |-> "fail"]
  ELSE [launch |-> TRUE, reply |-> "ok"]

\* lines "Build markdown" to the reply: title, filename, render, writeFileSync,
\* mirror launch, replyWithMarkdown; a failed write throws into the catch
Finish(m, hm) ==
  \E ioError \in BOOLEAN :
    LET title == titleCandidate(hm.msg.text)
        filename == noteFilename(fileTimestamp, title)
        filepath == pathJoin("notes", filename)
        markdown == buildMarkdown(variant, m, title, hm.savedAssets)
        threw == writeThrows(notes, filepath, ioError)
        next == afterWrite(threw)
        hw == [hm EXCEPT !.title = title, !.filename = filename,
                         !.markdown = markdown,
                         !.ioError = ioError, !.writeError = threw,
                         !.written = ~threw,
                         !.wseq = IF threw THEN 0
                                  ELSE 1 + Cardinality({k \in Msgs : h[k].written})]
    IN /\ notes' = IF threw THEN notes ELSE writeFile(notes, filepath, m)
       /\ mir' = IF next.launch /\ handlerLaunches(variant, drive, GD_FOLDER_ID)
                 THEN [mir EXCEPT ![m] =
                         mirrorStart(mir[m], drive, GD_FOLDER_ID, utcDate,
                                     hm.savedAssets)]
                 ELSE mir
       /\ h' = [h EXCEPT ![m] =
                  IF next.reply = "ok"
                  THEN [hw EXCEPT !.pc = "ackWait",
                                  !.replies = Append(@, Reply("ok", filename))]
                  ELSE Catch(hw)]

\* msg.photo.length, plus one for msg.document
Attachments(msg) == msg.nPhotos + (IF msg.doc THEN 1 ELSE 0)

\* the chats messages come from: with an allow-list, a listed and an unlisted
\* chat; without one, the unlisted chat
ChatsFor(allowed) == IF Len(allowed) > 0 THEN ChatIds ELSE {222}

\* a message is delivered and the handler runs to its first await
Deliver(m) ==
  /\ boot = "serving"
  /\ BOT_TOKEN = "tok"
  /\ h[m].pc = "idle"
  /\ \A k \in Msgs : k < m => h[k].pc # "idle"
  /\ Cardinality({k \in Msgs : h[k].pc \in Active}) < MaxActive
  /\ \E chat \in ChatsFor(allowedChatIds), text \in Texts, nPhotos \in 0..MaxPhotos,
        doc \in (IF variant = "full" THEN BOOLEAN ELSE {FALSE}) :
       LET msg == [chat |-> chat, text |-> text, nPhotos |-> nPhotos, doc |-> doc]
           hm == [h[m] EXCEPT !.msg = msg, !.chat = chat,
                              !.nAttach = Attachments(msg)]
       IN /\ Sum([k \in Msgs |-> h[k].nAttach], Msgs) + Attachments(msg) <= MaxAttach
          /\ IF filterDrops(variant, allowedChatIds, chat)
             THEN /\ h' = [h EXCEPT ![m] = Return(hm, "dropped")]
                  /\ UNCHANGED <<mir, notes>>
             ELSE IF Len(Descriptors(variant, msg)) > 0
             THEN /\ h' = [h EXCEPT ![m] = issueGetFile(hm, 1)]
                  /\ UNCHANGED <<mir, notes>>
             ELSE Finish(m, hm)
  /\ overlapped' = (overlapped \/ \E k \in Msgs : k # m /\ h[k].pc \in Suspended)
  /\ HUnchanged
  /\ UNCHANGED <<assetFiles, rfolders>>

\* the base names the file server may answer with for the next attachment of a
\* message: names are taken up in a fixed order, as only their equality matters
BaseNamesAfter(saved) ==
  {"f1"} \cup (IF saved # <<>> THEN BaseNames ELSE {})

onFetchErrorRetry(hm) ==
  [hm EXCEPT !.pc = "getFile", !.fetchErrorAt = hm.idx, !.nGetFile = @ + 1,
             !.fetches = Append(@, <<"getFile", hm.idx>>)]

\* a rejected getFile or downloadFile throws out of the loop into the catch
onFetchError(hm) == Catch([hm EXCEPT !.fetchErrorAt = hm.idx])

\* getFile answers: name the asset, open the write stream, start the download
\* (for a document the base name is doc.file_name || basename(file_path))
GetFileDone(m) ==
  /\ h[m].pc = "getFile"
  /\ \E ok \in BOOLEAN :
       IF ~ok
       THEN /\ h' = [h EXCEPT ![m] = onFetchError(h[m])]
            /\ assetFiles' = assetFiles
       ELSE \E base \in BaseNamesAfter(h[m].savedAssets) :
              LET dest == pathJoin("assets",
                            assetName(fileTimestamp, h[m].msg,
                                      pathJoin("photos", base)))
              IN /\ assetFiles' = writeFile(assetFiles, dest, m)
                 /\ h' = [h EXCEPT ![m].pc = "download", ![m].dest = dest,
                                   ![m].fetches =
                                      Append(@, <<"download", h[m].idx,
                                                  fileTimestamp, base>>)]
  /\ HUnchanged
  /\ UNCHANGED <<mir, notes, rfolders, overlapped>>

\* what ends a download: the request fails, the write stream finishes or
\* reports an error, or the response stream reports an error during the transfer
DownloadEvents == {"requestError", "writerFinish", "writerError", "responseError"}

\* downloadFile: await axios(...) rejects on a request error; the returned promise
\* resolves on the writer's 'finish' and rejects on the writer's 'error'; nothing
\* listens to the response stream, whose error leaves the promise pending
downloadFile(event) ==
  CASE event = "requestError" -> "rejected"
    [] event = "writerFinish" -> "resolved"
    [] event = "writerError" -> "rejected"
    [] event = "responseError" -> "pending"

\* the download ends: push the path and go on, throw into the catch, or stay
\* suspended at the await
DownloadDone(m) ==
  /\ h[m].pc = "download"
  /\ \E event \in DownloadEvents :
       IF downloadFile(event) = "pending"
       THEN /\ h' = [h EXCEPT ![m].pc = "stalled"]
            /\ UNCHANGED <<mir, notes>>
       ELSE IF downloadFile(event) = "rejected"
       THEN /\ h' = [h EXCEPT ![m] = onFetchError(h[m])]
            /\ UNCHANGED <<mir, notes>>
       ELSE LET hm == [h[m] EXCEPT !.savedAssets = Append(@, h[m].dest)]
            IN IF hm.idx < Len(Descriptors(variant, hm.msg))
               THEN /\ h' = [h EXCEPT ![m] = issueGetFile(hm, hm.idx + 1)]
                    /\ UNCHANGED <<mir, notes>>
               ELSE Finish(m, hm)
  /\ HUnchanged
  /\ UNCHANGED <<assetFiles, rfolders, overlapped>>

SetStatus(replies, st) == [replies EXCEPT ![Len(replies)].status = st]

\* replyWithMarkdown settles: the handler returns, or throws into the catch
AckDone(m) ==
  /\ h[m].pc = "ackWait"
  /\ \E ok \in BOOLEAN :
       IF ok
       THEN h' = [h EXCEPT ![m] =
                    Return([h[m] EXCEPT !.replies = SetStatus(@, "sent")], "done")]
       ELSE h' = [h EXCEPT ![m] =
                    Catch([h[m] EXCEPT !.replies = SetStatus(@, "failed")])]
  /\ HUnchanged
  /\ UNCHANGED <<mir, notes, assetFiles, rfolders, overlapped>>

\* how the handler ends once the failure notice has settled:
\*   full:   try { await ctx.reply(...) } catch (e) {}
\*   simple: await ctx.reply(...)
afterFailNotice(v, ok) ==
  IF ok THEN "done" ELSE IF v = "full" THEN "done" ELSE "rejected"

FailDone(m) ==
  /\ h[m].pc = "failWait"
  /\ \E ok \in BOOLEAN :
       h' = [h EXCEPT ![m] =
               Return([h[m] EXCEPT !.replies =
                                      SetStatus(@, IF ok THEN "sent" ELSE "failed")],
                      afterFailNotice(variant, ok))]
  /\ HUnchanged
  /\ UNCHANGED <<mir, notes, assetFiles, rfolders, overlapped>>

----------------------------------------------------------------------------

Next ==
  \/ CheckToken
  \/ MakeDirs
  \/ DriveSetup
  \/ ConstructBot
  \/ Launch
  \/ AuthorizeDone
  \/ Tick
  \/ \E m \in Msgs : Deliver(m)
  \/ \E m \in Msgs : GetFileDone(m)
  \/ \E m \in Msgs : DownloadDone(m)
  \/ \E m \in Msgs : AckDone(m)
  \/ \E m \in Msgs : FailDone(m)
  \/ \E m \in Msgs : ListDone(m)
  \/ \E m \in Msgs : CreateDone(m)
  \/ \E m \in Msgs : UploadDone(m)

Spec == Init /\ [][Next]_vars

\* one step of the handler invocation of message m: the answer to the call it
\* is waiting for
HandlerStep(m) == GetFileDone(m) \/ DownloadDone(m) \/ AckDone(m) \/ FailDone(m)

\* every call a handler invocation awaits (getFile, the download, the replies)
\* is answered or ended in the end: the remote side completes or reports an error
Fairness == \A m \in Msgs : WF_vars(HandlerStep(m))

LiveSpec == Spec /\ Fairness

----------------------------------------------------------------------------
(* parseTextMeta and the front matter of buildMarkdown, character by character *)

Quote == "\""
Backslash == "\\"

\* the string literals of parseTextMeta and buildMarkdown
HTTP == <<"h", "t", "t", "p", ":", "/", "/">>
HTTPS == <<"h", "t", "t", "p", "s", ":", "/", "/">>
DASHES == <<"-", "-", "-">>
KSOURCE == <<"s", "o", "u", "r", "c", "e", "-", "t", "y", "p", "e", ":", " ", "\"", "t", "e", "l", "e", "g", "r", "a", "m", "-", "p", "o", "s", "t", "\"">>
KPLATFORM == <<"p", "l", "a", "t", "f", "o", "r", "m", ":", " ", "\"", "T", "e", "l", "e", "g", "r", "a", "m", "\"">>
KCHANNEL == <<"c", "h", "a", "n", "n", "e", "l", ":", " ", "\"">>
KAUTHOR == <<"a", "u", "t", "h", "o", "r", ":", " ", "\"">>
KDATE == <<"d", "a", "t", "e", ":", " ", "\"">>
KURL == <<"o", "r", "i", "g", "i", "n", "a", "l", "-", "u", "r", "l", ":", " ", "\"">>
KMEDIA == <<"m", "e", "d", "i", "a", "-", "i", "m", "a", "g", "e", ":", " ", "\"">>
KTOPIC == <<"t", "o", "p", "i", "c", ":", " ", "\"">>
KTAGS == <<"t", "a", "g", "s", ":", " ", "[">>
ASSETS == <<"a", "s", "s", "e", "t", "s", "/">>

\* Array.prototype.join(sep) on an array of strings
RECURSIVE JoinStr(_, _)
JoinStr(a, sep) ==
  IF a = <<>> THEN <<>>
  ELSE IF Len(a) = 1 THEN a[1]
  ELSE a[1] \o sep \o JoinStr(Tail(a), sep)

\* (text || ''): an absent text reads as the empty string
orEmpty(arg) == IF arg.absent THEN <<>> ELSE arg.text

\* the class [A-Za-zА-Яа-я0-9_-] of tagRegex, over the characters the inputs use
IsTagChar(c) ==
  c \in {"a", "b", "c", "e", "f", "g", "h", "j", "m", "o", "p", "s", "t", "v", "x", "y",
         "0", "1", "2", "5", "6", "_", "-"}

\* the end of the longest run of characters of a class that starts at i: the
\* position before the first character behind i that is not of the class
TagRunEnd(s, i) ==
  LET stops == {j \in (i + 1)..Len(s) : ~IsTagChar(s[j])}
  IN IF stops = {} THEN Len(s) ELSE Min(stops) - 1

NonSpaceRunEnd(s, i) ==
  LET stops == {j \in (i + 1)..Len(s) : IsSpace(s[j])}
  IN IF stops = {} THEN Len(s) ELSE Min(stops) - 1

matchTagsFirstOnly(s, i) ==
  LET hits == {k \in i..(Len(s) - 1) : s[k] = "#" /\ IsTagChar(s[k + 1])}
  IN IF hits = {} THEN <<>>
     ELSE <<SubSeq(s, Min(hits) + 1, TagRunEnd(s, Min(hits) + 1))>>

\* while ((m = tagRegex.exec(text)) !== null) tags.push(m[1]), from lastIndex i:
\* /#([class]+)/g finds the leftmost '#' with a character of the class behind
\* it, takes the longest run, and goes on behind the match
RECURSIVE matchTags(_, _)
matchTags(s, i) ==
  LET hits == {k \in i..(Len(s) - 1) : s[k] = "#" /\ IsTagChar(s[k + 1])}
  IN IF hits = {} THEN <<>>
     ELSE <<SubSeq(s, Min(hits) + 1, TagRunEnd(s, Min(hits) + 1))>>
            \o matchTags(s, TagRunEnd(s, Min(hits) + 1) + 1)

\* s has t at position i
HasAt(s, i, t) == i + Len(t) - 1 <= Len(s) /\ SubSeq(s, i, i + Len(t) - 1) = t

\* the length of what https?:\/\/ matches at i, 0 when it does not match
SchemeLen(s, i) ==
  IF HasAt(s, i, HTTPS) THEN Len(HTTPS)
  ELSE IF HasAt(s, i, HTTP) THEN Len(HTTP)
  ELSE 0

\* /(https?:\/\/[^\s]+)/ matches at i
UrlAt(s, i) ==
  /\ SchemeLen(s, i) > 0
  /\ i + SchemeLen(s, i) <= Len(s)
  /\ ~IsSpace(s[i + SchemeLen(s, i)])

\* text.match(urlRegex) || [], from position i: the leftmost match runs to the
\* next white space, and the search goes on behind it
RECURSIVE matchUrls(_, _)
matchUrls(s, i) ==
  LET hits == {k \in i..Len(s) : UrlAt(s, k)}
  IN IF hits = {} THEN <<>>
     ELSE <<SubSeq(s, Min(hits), NonSpaceRunEnd(s, Min(hits)))>>
            \o matchUrls(s, NonSpaceRunEnd(s, Min(hits)) + 1)

parseTextMeta(arg) ==
  [ titleCandidate |-> titleCandidate(orEmpty(arg)),
    urls |-> matchUrls(orEmpty(arg), 1),
    tags |-> matchTags(orEmpty(arg), 1) ]

\* s.replace(/"/g, '\\"')
RECURSIVE escapeQuotes(_)
escapeQuotes(s) ==
  IF s = <<>> THEN <<>>
  ELSE (IF Head(s) = Quote THEN <<Backslash, Quote>> ELSE <<Head(s)>>)
         \o escapeQuotes(Tail(s))

\* path.basename(p) of a path string that does not end in a slash
basenameOf(p) ==
  LET slashes == {i \in 1..Len(p) : p[i] = "/"}
  IN IF slashes = {} THEN p ELSE SubSeq(p, Max(slashes) + 1, Len(p))

\* the lines of yamlLines between the first '---' and the trailing ''
frontMatter(data) ==
  << DASHES,
     KSOURCE,
     KPLATFORM,
     KCHANNEL \o escapeQuotes(data.channel) \o <<Quote>>,
     KAUTHOR \o escapeQuotes(data.author) \o <<Quote>>,
     KDATE \o data.dateIso \o <<Quote>>,
     KURL \o escapeQuotes(data.originalUrl) \o <<Quote>>,
     KMEDIA \o JoinStr([i \in 1..Len(data.mediaImages) |->
                          ASSETS \o basenameOf(data.mediaImages[i])],
                       <<",">>)
            \o <<Quote>>,
     KTOPIC \o escapeQuotes(data.topic) \o <<Quote>>,
     KTAGS \o JoinStr([i \in 1..Len(data.tags) |->
                         <<Quote>> \o data.tags[i] \o <<Quote>>],
                      <<",", " ">>)
           \o <<"]">>,
     DASHES >>

----------------------------------------------------------------------------
(* The two functions applied on their own to bounded arguments *)

MaxSegs == 4         \* segments a text argument is made of
MaxItems == 2        \* elements of the mediaImages and of the tags argument
LongLen == 119       \* length of the long segment: TitleMax - 1

\* the segments texts are made of: white space, hashtags, links, and a run of
\* LongLen letters that takes a line to TitleMax and beyond
Segments ==
  { <<>>,
    <<" ">>,
    <<"\n">>,
    <<"#", "a">>,
    <<"#">>,
    <<"h", "t", "t", "p", "s", ":", "/", "/", "x", ".", "c", "o", "m">>,
    <<"h", "t", "t", "p", ":", "/", "/">>,
    [i \in 1..LongLen |-> "a"] }

RECURSIVE Concat(_)
Concat(a) == IF a = <<>> THEN <<>> ELSE Head(a) \o Concat(Tail(a))

TextArgs ==
  {[fn |-> "parseTextMeta", absent |-> TRUE, text |-> <<>>]}
    \cup {[fn |-> "parseTextMeta", absent |-> FALSE, text |-> Concat(a)] :
            a \in [1..MaxSegs -> Segments]}

SeqsUpTo(S, n) == UNION {[1..k -> S] : k \in 0..n}

FieldValues == {<<>>, <<"a">>, <<Quote>>, <<"a", Quote, "b">>, <<"a", Backslash>>}

\* the field sets buildMarkdown is applied to
DataArgs ==
  { [fn |-> "buildMarkdown",
     data |-> [channel |-> ch, author |-> au, dateIso |-> <<"2", "0", "2", "6", "-", "1", "1", "-", "0", "5", "T", "0", "0", ":", "0", "0", ":", "0", "0", ".", "0", "0", "0", "Z">>,
               originalUrl |-> ou, mediaImages |-> mi, topic |-> tp, tags |-> tg]] :
      ch \in FieldValues,
      au \in {<<>>, <<"a", Quote>>},
      ou \in {<<>>, <<"h", "t", "t", "p", ":", "/", "/", "x", Quote, "y">>},
      mi \in SeqsUpTo({<<"/", "v", "/", "a", "s", "s", "e", "t", "s", "/", "1", "-", "c", "-", "f", ".", "j", "p", "g">>, <<"/", "v", "/", "a", "s", "s", "e", "t", "s", "/", "1", "-", "c", "-", "f", Quote, "g", ".", "j", "p", "g">>}, MaxItems),
      tp \in {<<>>, <<Quote>>},
      tg \in SeqsUpTo({<<"a">>, <<"a", Quote, "b">>}, MaxItems) }

FnInit ==
  /\ input \in TextArgs \cup DataArgs
  /\ output = NoOutput
  /\ variant = "full"
  /\ env = Environment("tok", "", "", <<>>)
  /\ boot = "start"
  /\ exitCode = -1
  /\ BOT_TOKEN = ""
  /\ dirs = {}
  /\ allowedChatIds = <<>>
  /\ bot = FALSE
  /\ launched = FALSE
  /\ drive = FALSE
  /\ auth = "none"
  /\ clock = 0
  /\ h = [m \in Msgs |-> HandlerInit]
  /\ mir = [m \in Msgs |-> MirrorInit]
  /\ notes = {}
  /\ assetFiles = {}
  /\ rfolders = {}
  /\ overlapped = FALSE

FnUnchanged == UNCHANGED <<variant, env, boot, exitCode, BOT_TOKEN, dirs,
                           allowedChatIds, bot, launched, drive, auth, clock, h,
                           mir, notes, assetFiles, rfolders, overlapped, input>>

\* meta = parseTextMeta(text)
ApplyParseTextMeta ==
  /\ input.fn = "parseTextMeta"
  /\ output = NoOutput
  /\ output' = [fn |-> "parseTextMeta", meta |-> parseTextMeta(input)]
  /\ FnUnchanged

\* markdown = buildMarkdown({...}), its front matter
ApplyBuildMarkdown ==
  /\ input.fn = "buildMarkdown"
  /\ output = NoOutput
  /\ output' = [fn |-> "buildMarkdown", yamlLines |-> frontMatter(input.data)]
  /\ FnUnchanged

FnNext == ApplyParseTextMeta \/ ApplyBuildMarkdown

FnSpec == FnInit /\ [][FnNext]_vars

----------------------------------------------------------------------------
(* Properties *)

HasReply(m, kind) == \E i \in 1..Len(h[m].replies) : h[m].replies[i].kind = kind

NotesAt(filename) == {n \in notes : n.path = pathJoin("notes", filename)}

MirrorOff == ~GD_FOLDER_ID \/ ~GOOGLE_SA_KEY_BASE64

\* C1: in the full variant the mirror is launched and the success reply is sent
\* only for a message whose note has been written; a message whose write threw
\* gets exactly one reply, the failure notice, and no remote call at all.
C1_LocalWriteFirst ==
  variant = "full" =>
    \A m \in Msgs :
      /\ mir[m].pc # "none" => h[m].written
      /\ HasReply(m, "ok") => h[m].written
      /\ h[m].writeError =>
           /\ ~h[m].written
           /\ NotesAt(h[m].filename) = {n \in NotesAt(h[m].filename) : n.content # m}
           /\ mir[m] = MirrorInit
           /\ Len(h[m].replies) = 1
           /\ h[m].replies[1].kind = "fail"

C1_Witness ==
  /\ variant = "full"
  /\ \E m1, m2 \in Msgs :
       /\ h[m1].writeError /\ h[m1].pc = "done"
       /\ mir[m2].pc # "none" /\ Len(mir[m2].log) > 0 /\ HasReply(m2, "ok")

\* C2: the mirror upload never rejects, and for a message whose note was written
\* the first reply is the success reply naming the filename, whatever the mirror
\* does; a failure notice follows only when sending that reply itself failed.
C2_MirrorFailuresContained ==
  \A m \in Msgs :
    /\ mir[m].pc # "rejected"
    /\ h[m].written =>
         /\ Len(h[m].replies) >= 1
         /\ h[m].replies[1].kind = "ok"
         /\ h[m].replies[1].arg = h[m].filename
         /\ Len(h[m].replies) > 1 => h[m].replies[1].status = "failed"

C2_Witness ==
  \E m \in Msgs :
    /\ h[m].written /\ h[m].pc = "done"
    /\ mir[m].pc = "done" /\ Len(mir[m].log) = 1
    /\ Len(h[m].replies) = 1 /\ h[m].replies[1].kind = "ok"
    /\ h[m].replies[1].status = "sent"

\* C3: a message is dropped exactly when the allow-list is non-empty and lacks
\* its chat id; a dropped message causes no getFile call, no asset file, no
\* note, no mirror launch and no reply.
C3_FilterDropsSilently ==
  \A m \in Msgs :
    h[m].pc # "idle" =>
      /\ h[m].pc = "dropped" <=>
           (Len(allowedChatIds) > 0 /\ ~Includes(allowedChatIds, h[m].chat))
      /\ h[m].pc = "dropped" =>
           /\ h[m].nGetFile = 0
           /\ ~h[m].written /\ ~h[m].writeError /\ h[m].filename = <<>>
           /\ \A n \in notes : n.content # m
           /\ \A f \in assetFiles : f.content # m
           /\ mir[m] = MirrorInit
           /\ h[m].replies = <<>>

C3_Witness ==
  /\ Len(allowedChatIds) > 0 /\ drive
  /\ \E m1, m2 \in Msgs :
       /\ h[m1].pc = "dropped" /\ h[m1].chat = 222
       /\ h[m2].pc = "done" /\ h[m2].chat = 111 /\ h[m2].written

C5_NoEscape == \A m \in Msgs : h[m].pc # "rejected"

Uploads(m) ==
  {mir[m].log[i] : i \in {j \in 1..Len(mir[m].log) : mir[m].log[j].op = "upload"}}

UploadFolders(day) ==
  {e.folder : e \in UNION {Uploads(m) : m \in {k \in Msgs : mir[k].name = day}}}

\* C6: when no two handler invocations overlap, at most one remote folder is
\* created per date, and all the uploads of a date go into one folder.
C6_OneDateFolder ==
  ~overlapped =>
    \A day \in 0..MaxClock :
      /\ Cardinality({f \in rfolders : f.name = day}) <= 1
      /\ Cardinality(UploadFolders(day)) <= 1

\* C7: with the folder id or the credential not configured, the client stays
\* null, authorize is never called, and no message starts a mirror upload: no
\* remote call is issued and nothing rejects.
C7_MirrorDisabled ==
  (variant = "full" /\ MirrorOff) =>
    /\ ~drive
    /\ auth = "none"
    /\ rfolders = {}
    /\ \A m \in Msgs : mir[m] = MirrorInit

C7_Witness ==
  /\ variant = "full" /\ MirrorOff
  /\ \E m \in Msgs : h[m].pc = "done" /\ h[m].written /\ HasReply(m, "ok")

\* a message of the full variant whose note has been written, while the locals
\* of its handler invocation are still alive
Succeeded(m) ==
  variant = "full" /\ h[m].written /\ h[m].pc \in {"ackWait", "failWait"}

\* one getFile and then one download per attachment, in attachment order, the
\* saved paths named after the time and the base name of each fetch and present
\* on disk, and media-image listing them in that order with ',' between
FetchedInOrder(m) ==
  LET k == Attachments(h[m].msg)
      log == h[m].fetches
      saved == h[m].savedAssets
      mi == h[m].markdown.mediaImage
  IN /\ h[m].nGetFile = k
     /\ Len(log) = 2 * k
     /\ Len(saved) = k
     /\ \A j \in 1..k :
          /\ log[2 * j - 1] = <<"getFile", j>>
          /\ log[2 * j][1] = "download" /\ log[2 * j][2] = j
          /\ saved[j].dir = "assets"
          /\ saved[j].name[1] = log[2 * j][3]
          /\ saved[j].name[3] = log[2 * j][4]
          /\ \E f \in assetFiles : f.path = saved[j]
     /\ Len(mi) = (IF k = 0 THEN 0 ELSE 2 * k - 1)
     /\ \A j \in 1..k : mi[2 * j - 1] = [dir |-> "assets", name |-> saved[j].name]
     /\ \A j \in 1..(k - 1) : mi[2 * j] = ","

\* two fetches of one message that differ in their second or in their base name
SameSecondSameBase(m, i, j) ==
  /\ h[m].fetches[2 * i][3] = h[m].fetches[2 * j][3]
  /\ h[m].fetches[2 * i][4] = h[m].fetches[2 * j][4]

Writers(filename) == {m \in Msgs : h[m].written /\ h[m].filename = filename}

\* C9: a write throws only on an I/O error, never because the file exists; two
\* messages with the same title whose filenames are computed in the same second
\* get the same filename; and for messages written under one filename there is
\* exactly one note at that path, it is the one written last, and each message's
\* success reply names that filename.
C9_SameSecondOverwrite ==
  /\ \A m \in Msgs : h[m].writeError => h[m].ioError
  /\ \A m1, m2 \in Msgs :
       (/\ h[m1].filename # <<>> /\ h[m2].filename # <<>>
        /\ h[m1].title = h[m2].title
        /\ h[m1].filename[1] = h[m2].filename[1])
       => h[m1].filename = h[m2].filename
  /\ \A m \in Msgs :
       h[m].written =>
         LET W == Writers(h[m].filename)
             last == CHOOSE w \in W : \A x \in W : h[x].wseq <= h[w].wseq
         IN /\ NotesAt(h[m].filename) =
                 {[path |-> pathJoin("notes", h[m].filename), content |-> last]}
            /\ h[m].replies[1].kind = "ok"
            /\ h[m].replies[1].arg = h[m].filename

C9_Witness ==
  \E m1, m2 \in Msgs :
    /\ m1 # m2
    /\ h[m1].pc = "done" /\ h[m2].pc = "done"
    /\ h[m1].written /\ h[m2].written
    /\ h[m1].title = h[m2].title /\ h[m1].filename = h[m2].filename
    /\ h[m1].wseq < h[m2].wseq
    /\ \A m \in {m1, m2} :
         /\ Len(h[m].replies) = 1
         /\ h[m].replies[1].kind = "ok" /\ h[m].replies[1].status = "sent"
    /\ NotesAt(h[m1].filename) =
         {[path |-> pathJoin("notes", h[m1].filename), content |-> m2]}

\* C10: started without a bot token, the process exits with a non-zero code
\* before it creates a directory, constructs the bot or launches the listener,
\* and no message is handled.
C10_NoTokenExitsFirst ==
  env.BOT_TOKEN = "" =>
    /\ boot \in {"start", "exited"}
    /\ boot = "exited" => exitCode > 0
    /\ dirs = {}
    /\ ~bot
    /\ ~launched
    /\ \A m \in Msgs : h[m].pc = "idle"

\* C14: a mirror upload is launched only once authorization has completed
\* successfully: while authorization is pending or has failed, no message has
\* started a mirror upload, so no remote list, create or upload call was issued.
C14_LaunchOnlyWhenReady ==
  auth # "ok" => \A m \in Msgs : mir[m].pc = "none" /\ mir[m].log = <<>>

\* the mirror was configured and is out of use: the key did not parse, or the
\* authorize callback reported an error
Disabled ==
  /\ variant = "full" /\ GD_FOLDER_ID /\ GOOGLE_SA_KEY_BASE64
  /\ boot \notin {"start", "token", "dirs"}
  /\ env.GOOGLE_SERVICE_ACCOUNT_KEY_BASE64 = "bad" \/ auth = "failed"

\* C15: once the mirror is disabled it stays disabled: the shared client is null
\* and is never set again, and no message handled from then on starts a mirror
\* upload.
C15_DisabledForGood ==
  [][Disabled =>
       /\ ~drive /\ ~drive'
       /\ Disabled'
       /\ \A m \in Msgs : mir[m].pc = "none" => mir'[m].pc = "none"]_vars

\* the authorization failed, and a message handled after that was saved and
\* acknowledged without a mirror upload
C15_Witness ==
  /\ Disabled /\ auth = "failed"
  /\ \E m \in Msgs :
       /\ h[m].pc = "done" /\ h[m].written /\ HasReply(m, "ok")
       /\ mir[m] = MirrorInit

\* the calls of one kind in the log of a mirror attempt, in the order of issue
CallsOf(m, op) == SelectSeq(mir[m].log, LAMBDA e : e.op = op)

\* C16: one mirror attempt issues at most one list and one folder create; when
\* either failed it uploads nothing; otherwise it uploads asset 1 .. asset n and
\* then the note (item n + 1), each exactly once and in that order, all of them
\* by the time it ends, whatever the asset uploads answered.
C16_AttemptShape ==
  \A m \in Msgs :
    /\ Len(CallsOf(m, "list")) <= 1 /\ Len(CallsOf(m, "mkdir")) <= 1
    /\ mir[m].folder = 0 => CallsOf(m, "upload") = <<>>
    /\ \A i \in 1..Len(CallsOf(m, "upload")) :
         CallsOf(m, "upload")[i] = Call("upload", mir[m].folder, i)
    /\ Len(CallsOf(m, "upload")) <= mir[m].nAssets + 1
    /\ (mir[m].pc = "done" /\ mir[m].folder # 0) =>
         Len(CallsOf(m, "upload")) = mir[m].nAssets + 1

\* the attempt of message m has had its own folder create answered with an id
CreatedFolder(m) == mir[m].folder # 0 /\ Len(CallsOf(m, "mkdir")) = 1

\* C17: two mirror attempts of one date that both found no folder and both had
\* their create answered hold different folder ids, the remote then has two
\* folders of that date name, and each attempt uploads into its own folder.
C17_RacingCreatesTwoFolders ==
  \A m1, m2 \in Msgs :
    (m1 # m2 /\ mir[m1].name = mir[m2].name
       /\ CreatedFolder(m1) /\ CreatedFolder(m2)) =>
      /\ mir[m1].folder # mir[m2].folder
      /\ \A m \in {m1, m2} :
           /\ [id |-> mir[m].folder, name |-> mir[m].name] \in rfolders
           /\ \A i \in 1..Len(CallsOf(m, "upload")) :
                CallsOf(m, "upload")[i].folder = mir[m].folder

\* both attempts listed before either create was answered, both created, and
\* both have uploaded: two folders of one date name, two upload targets
C17_Witness ==
  \E m1, m2 \in Msgs :
    /\ m1 # m2 /\ mir[m1].name = mir[m2].name
    /\ CreatedFolder(m1) /\ CreatedFolder(m2)
    /\ Cardinality({f \in rfolders : f.name = mir[m1].name}) = 2
    /\ mir[m1].pc = "done" /\ mir[m2].pc = "done"
    /\ CallsOf(m1, "upload") # <<>> /\ CallsOf(m2, "upload") # <<>>
    /\ CallsOf(m1, "upload")[1].folder # CallsOf(m2, "upload")[1].folder

\* C19: in the full variant a failure notice is attempted only for a message
\* whose note was not written and whose mirror was not launched, and no message
\* has both a delivered success reply and a delivered failure notice.
C19_NoticeOnlyWithoutNote ==
  variant = "full" =>
    \A m \in Msgs :
      /\ HasReply(m, "fail") => ~h[m].written /\ mir[m].pc = "none"
      /\ ~(\E i, j \in 1..Len(h[m].replies) :
             /\ h[m].replies[i].kind = "ok" /\ h[m].replies[i].status = "sent"
             /\ h[m].replies[j].kind = "fail" /\ h[m].replies[j].status = "sent")

\* the quote at position i of v is escaped: an odd number of backslashes stands
\* right before it
RECURSIVE BackslashesBefore(_, _)
BackslashesBefore(v, i) ==
  IF i > 1 /\ v[i - 1] = Backslash THEN 1 + BackslashesBefore(v, i - 1) ELSE 0

Escaped(v, i) == BackslashesBefore(v, i) % 2 = 1

\* v is one quoted string: it opens with a quote, closes with an unescaped quote
\* as its last character, and every quote in between is escaped
QuotedString(v) ==
  /\ Len(v) >= 2
  /\ v[1] = Quote /\ v[Len(v)] = Quote /\ ~Escaped(v, Len(v))
  /\ \A i \in 2..(Len(v) - 1) : v[i] = Quote => Escaped(v, i)

\* line is key: "value" with one quoted string as the value
KeyValueLine(line) ==
  \E k \in 1..Len(line) :
    /\ line[k] = ":" /\ \A j \in 1..(k - 1) : line[j] \notin {":", Quote, " "}
    /\ k + 1 <= Len(line) /\ line[k + 1] = " "
    /\ QuotedString(SubSeq(line, k + 2, Len(line)))

\* the number of quoted strings v is a ", "-separated list of, -1 when it is none
RECURSIVE QuotedListLen(_)
QuotedListLen(v) ==
  LET closers == {i \in 2..Len(v) : v[i] = Quote /\ ~Escaped(v, i)}
      c == Min(closers)
      rest == QuotedListLen(SubSeq(v, c + 3, Len(v)))
  IN IF v = <<>> \/ v[1] # Quote \/ closers = {} THEN -1
     ELSE IF c = Len(v) THEN 1
     ELSE IF Len(v) >= c + 3 /\ v[c + 1] = "," /\ v[c + 2] = " " /\ rest > 0
     THEN 1 + rest
     ELSE -1

\* line is tags: [...] with a list of n quoted strings between the brackets
TagsLine(line, n) ==
  /\ Len(line) > Len(KTAGS) /\ SubSeq(line, 1, Len(KTAGS)) = KTAGS
  /\ line[Len(line)] = "]"
  /\ LET inner == SubSeq(line, Len(KTAGS) + 1, Len(line) - 1)
     IN IF n = 0 THEN inner = <<>> ELSE QuotedListLen(inner) = n

\* C11: in the front matter buildMarkdown renders, every line between the two
\* '---' lines is key: "value" with every quote of the value escaped and the
\* closing quote as the unescaped last character; the tags line is the
\* bracketed list of as many such quoted strings as there are tags.
C11_FrontMatterWellFormed ==
  output.fn = "buildMarkdown" =>
    LET lines == output.yamlLines
    IN /\ lines[1] = DASHES /\ lines[Len(lines)] = DASHES
       /\ \A i \in 2..(Len(lines) - 2) : KeyValueLine(lines[i])
       /\ TagsLine(lines[Len(lines) - 1], Len(input.data.tags))

\* the positions of s where '#' is followed by a character of the tag class
TagStarts(s) == {i \in 1..(Len(s) - 1) : s[i] = "#" /\ IsTagChar(s[i + 1])}

ExpectedTags(s) ==
  [k \in 1..Cardinality(TagStarts(s)) |->
     LET p == Nth(TagStarts(s), k) + 1
     IN SubSeq(s, p, Min({j \in p..Len(s) : ~IsTagChar(s[j])} \cup {Len(s) + 1}) - 1)]

\* http:// or https:// stands at i with a character that is no white space behind
SchemeAt(s, i) ==
  \/ HasAt(s, i, HTTP) /\ i + Len(HTTP) <= Len(s) /\ ~IsSpace(s[i + Len(HTTP)])
  \/ HasAt(s, i, HTTPS) /\ i + Len(HTTPS) <= Len(s) /\ ~IsSpace(s[i + Len(HTTPS)])

\* the positions where a link starts that is not part of a link that started
\* earlier
UrlStarts(s) ==
  {i \in 1..Len(s) :
     /\ SchemeAt(s, i)
     /\ ~\E j \in 1..(i - 1) : SchemeAt(s, j) /\ \A q \in j..(i - 1) : ~IsSpace(s[q])}

ExpectedUrls(s) ==
  [k \in 1..Cardinality(UrlStarts(s)) |->
     LET p == Nth(UrlStarts(s), k)
     IN SubSeq(s, p, Min({j \in p..Len(s) : IsSpace(s[j])} \cup {Len(s) + 1}) - 1)]

\* C12: parseTextMeta returns as tags every hashtag of the text without its
\* '#', and as urls every http/https link, both in the order of the text and
\* with repetitions kept; an absent or empty text gives two empty sequences.
C12_TagsAndUrlsInOrder ==
  output.fn = "parseTextMeta" =>
    LET s == IF input.absent THEN <<>> ELSE input.text
    IN /\ output.meta.tags = ExpectedTags(s)
       /\ output.meta.urls = ExpectedUrls(s)
       /\ s = <<>> => output.meta.tags = <<>> /\ output.meta.urls = <<>>

\* a text with one hashtag twice and a link: both tags, in order, and the link
C12_Witness ==
  /\ output.fn = "parseTextMeta"
  /\ input.text = <<"#", "a", "#", "a", " ", "h", "t", "t", "p", "s", ":", "/", "/", "x", ".", "c", "o", "m">>
  /\ output.meta.tags = << <<"a">>, <<"a">> >>
  /\ output.meta.urls = << <<"h", "t", "t", "p", "s", ":", "/", "/", "x", ".", "c", "o", "m">> >>

\* C13: the title candidate is the first line that is not empty once trimmed,
\* cut to its first TitleMax characters: at most TitleMax long, exactly TitleMax
\* when that line is longer; it is the fallback for an absent, empty or
\* white-space-only text.
C13_TitleCandidate ==
  output.fn = "parseTextMeta" =>
    LET s == IF input.absent THEN <<>> ELSE input.text
        t == output.meta.titleCandidate
        inked == {i \in 1..Len(s) : ~IsSpace(s[i])}
        p == Min(inked)
        e == Min({j \in p..Len(s) : s[j] = "\n"} \cup {Len(s) + 1}) - 1
        q == Max({j \in p..e : ~IsSpace(s[j])})
        line == SubSeq(s, p, q)
    IN IF inked = {} THEN t = FallbackTitle
       ELSE /\ Len(t) <= TitleMax
            /\ Len(line) <= TitleMax => t = line
            /\ Len(line) > TitleMax => Len(t) = TitleMax /\ t = SubSeq(line, 1, TitleMax)

\* a text that is one line longer than TitleMax gave a title of TitleMax characters
C13_Witness ==
  /\ output.fn = "parseTextMeta"
  /\ ~input.absent /\ Len(input.text) > TitleMax
  /\ \A i \in 1..Len(input.text) : ~IsSpace(input.text[i])
  /\ Len(output.meta.titleCandidate) = TitleMax

\* C18: every message whose handler waits for a file lookup or a download gets
\* a reply in the end, the success reply or the failure notice, provided every
\* awaited call is answered or ended.
C18_EveryMessageAnswered ==
  \A m \in Msgs :
    (h[m].pc \in {"getFile", "download"}) ~> (HasReply(m, "ok") \/ HasReply(m, "fail"))

====
